---- MODULE Spec2Model ----
(***************************************************************************)
(* skyport-server: the agent control channel (TunnelHandler), the tunnel   *)
(* protocol session (TunnelProtocol) and the edge proxy front-end          *)
(* (ProxyHandler), as a state machine of goroutines.                       *)
(*                                                                         *)
(* Goroutines: one ConnectTunnel handler and one reader per agent          *)
(* connection, one HandleSubdomain handler per browser request (plain or   *)
(* WebSocket upgrade), one StopTunnel handler, one DeleteTunnel handler.   *)
(* The functions on headers and ValidateSubdomain are followed call by     *)
(* call.  A step is one access to shared state (the                        *)
(* activeTunnels map under tunnelsMutex, a row of the tunnels table, a     *)
(* field of a TunnelProtocol, the agent websocket).                        *)
(***************************************************************************)
EXTENDS Integers, Sequences, FiniteSets, TLC

\* ---------------------------------------------------------------- bounds
MaxConns == 2
MaxReqs == 2

Conn == 1..MaxConns
Req == 1..MaxReqs
TunnelIDs == {"t1"}

\* The browser request that asks for a WebSocket upgrade, and every browser request.
WsReq == {MaxReqs + 1}
AllReq == Req \cup WsReq

\* ------------------------------------------------------ program constants
\* heartbeatTimeout and the ticker period, in seconds
HeartbeatTimeout == 45
TickPeriod == 15

VARIABLES
    activeTunnels,  \* TunnelHandler.activeTunnels: Go map tunnelID -> session, as its set of <<key, value>>
    isActive,       \* tunnels.is_active of each row
    hpc,            \* where the ConnectTunnel handler of each connection is
    ctid,           \* X-Tunnel-ID of each connection
    sock,           \* the agent websocket of each connection
    wire,           \* the TunnelMessage frames written to each agent websocket, in order
    requestCount,   \* TunnelProtocol.requestCount
    pendingReqs,    \* TunnelProtocol.pendingReqs: Go map id -> channel, as its set of <<key, value>>
    chanBuf,        \* the buffer (capacity 1) of the responseChan each request made
    silence,        \* whole tick periods lastHeartbeat will be older than at the coming tick
    rdr,            \* where the reader goroutine of each connection is
    rpc,            \* where each browser request's handler is
    rconn,          \* the *TunnelProtocol a browser request got from GetActiveTunnel
    rtmp,           \* the value of requestCount a request loaded for its increment
    rid,            \* the requestID of a request
    browser,        \* what was written to each browser's ResponseWriter, in order
    spc,            \* where the StopTunnel handler is
    sconn,          \* the *TunnelProtocol StopTunnel read from activeTunnels
    rhost,          \* the subdomain in the Host of each browser request
    cause,          \* why handleTunnelConnection returned, for each connection
    lastSeen,       \* tunnels.last_seen of each row: the statement that wrote it last
    creds,          \* the user_id, X-Tunnel-ID and X-Tunnel-Auth of each connect request
    rows,           \* the ids of the rows of the tunnels table
    connectedIp,    \* tunnels.connected_ip of each row: the connection whose ClientIP it is, 0 for NULL
    rping,          \* the ID of the ping message the reader of each connection is answering
    chanClosed,     \* the requests whose responseChan was closed
    fx              \* a call of a function of the program: its name, its argument and what it returned

vars == <<activeTunnels, isActive, hpc, ctid, sock, wire, requestCount, pendingReqs,
          chanBuf, silence, rdr, rpc, rconn, rtmp, rid, browser, spc, sconn,
          rhost, cause, lastSeen, creds, rows, connectedIp, rping,
          chanClosed, fx>>

\* ---------------------------------------------------------------- Go maps
MapHas(m, k) == \E p \in m : p[1] = k
MapGet(m, k) == (CHOOSE p \in m : p[1] = k)[2]
MapDelete(m, k) == {p \in m : p[1] # k}
MapPut(m, k, v) == MapDelete(m, k) \cup {<<k, v>>}

\* fmt.Sprintf("%s-%d", tp.tunnelID, tp.requestCount)
RequestID(t, n) == <<t, n>>

Frame(type, id, r) == [type |-> type, id |-> id, req |-> r]

\* ------------------------------------------------------ the tunnels table
\* tunnels.user_id and tunnels.auth_token of each row; a row's subdomain is
\* written as its id.  "gone" is the id and the subdomain of no row.
Owner == [t \in TunnelIDs |-> "u1"]
AuthToken == [t \in TunnelIDs |-> "k1"]
Hosts == TunnelIDs \cup {"gone"}

\* What a connect request carries: the user_id the auth middleware put in the
\* context ("" when it put none), X-Tunnel-ID and X-Tunnel-Auth.
Credentials == [user : {"", "u1", "u2"}, tid : Hosts \cup {""}, auth : {"", "k1", "bad"}]
NoCreds == [user |-> "", tid |-> "", auth |-> ""]

\* The checks without the comparison of the row's user_id with the user.
ConnectCheckNoOwner(cr) ==
    IF cr.user = "" THEN 401
    ELSE IF cr.tid = "" \/ cr.auth = "" THEN 400
    ELSE IF cr.tid \notin rows THEN 404
    ELSE IF AuthToken[cr.tid] # cr.auth THEN 401
    ELSE 101

\* ConnectTunnel lines 204-247, the checks in the order they are made: the
\* status the request is rejected with, or 101 when the handler goes on to
\* switch protocols.
ConnectCheck(cr) ==
    IF cr.user = "" THEN 401
    ELSE IF cr.tid = "" \/ cr.auth = "" THEN 400
    ELSE IF cr.tid \notin rows THEN 404
    ELSE IF Owner[cr.tid] # cr.user THEN 403
    ELSE IF AuthToken[cr.tid] # cr.auth THEN 401
    ELSE 101

\* No call of a function is being followed.
NoCall == [op |-> "none", arg |-> <<>>, out |-> <<>>, done |-> FALSE]

\* The server after NewTunnelHandler and NewProxyHandler, with the rows of the table.
InitProgram ==
    /\ activeTunnels = {}
    /\ isActive = [t \in TunnelIDs |-> FALSE]
    /\ hpc = [c \in Conn |-> "idle"]
    /\ ctid = [c \in Conn |-> "t1"]
    /\ sock = [c \in Conn |-> "none"]
    /\ wire = [c \in Conn |-> <<>>]
    /\ requestCount = [c \in Conn |-> 0]
    /\ pendingReqs = [c \in Conn |-> {}]
    /\ chanBuf = [r \in AllReq |-> <<>>]
    /\ silence = [c \in Conn |-> 0]
    /\ rdr = [c \in Conn |-> "off"]
    /\ rpc = [r \in AllReq |-> "idle"]
    /\ rconn = [r \in AllReq |-> 0]
    /\ rtmp = [r \in AllReq |-> 0]
    /\ rid = [r \in AllReq |-> <<>>]
    /\ browser = [r \in AllReq |-> <<>>]
    /\ spc = "idle"
    /\ sconn = 0
    /\ rhost = [r \in AllReq |-> ""]
    /\ cause = [c \in Conn |-> "none"]
    /\ lastSeen = [t \in TunnelIDs |-> "never"]
    /\ creds = [c \in Conn |-> NoCreds]
    /\ rows = TunnelIDs
    /\ connectedIp = [t \in TunnelIDs |-> 0]
    /\ rping = [c \in Conn |-> ""]
    /\ chanClosed = {}

Init ==
    /\ InitProgram
    /\ fx = NoCall

\* ------------------------------------------------- the agent websocket
\* The goroutines that are inside conn.WriteMessage on connection c.  sendMessage
\* takes no lock, so nothing keeps this set to one writer.
Writers(c) ==
    {<<"req", r>> : r \in {x \in AllReq : rpc[x] \in {"sending", "ws_sending", "forwarding"}
                                          /\ rconn[x] = c}}
    \cup (IF hpc[c] = "connecting" THEN {<<"handler", c>>} ELSE {})
    \cup (IF spc = "terminating" /\ sconn = c THEN {<<"stop", 0>>} ELSE {})
    \cup (IF rdr[c] = "ponging" THEN {<<"reader", c>>} ELSE {})

\* Another goroutine is inside WriteMessage on c while g is: the websocket
\* library supports one concurrent writer and panics ("concurrent write to
\* websocket connection") when it notices a second one.
Overlapped(c, g) == Writers(c) \ {g} # {}

\* tp.conn.WriteMessage(websocket.TextMessage, data) returning nil: the frame is on the wire
sendMessage(c, f) == [wire EXCEPT ![c] = Append(@, f)]

\* UPDATE tunnels SET is_active = v WHERE id = t: with no such row the statement
\* changes nothing and returns no error.
SetActive(t, v) == IF t \in rows THEN [isActive EXCEPT ![t] = v] ELSE isActive

\* UPDATE tunnels SET last_seen = NOW() WHERE id = t, by the statement named w.
SetSeen(t, w) == IF t \in rows THEN [lastSeen EXCEPT ![t] = w] ELSE lastSeen

\* UPDATE tunnels SET connected_ip = $1 WHERE id = t, with c.ClientIP() of
\* connection c.
SetIp(t, c) == IF t \in rows THEN [connectedIp EXCEPT ![t] = c] ELSE connectedIp

\* ------------------------------------------------------- ConnectTunnel
\* Lines 203-299 when every check and database call succeeds: the request is
\* upgraded to a websocket (the connection is this handler's alone until it is
\* installed) and the row is updated, is_active = true, last_seen = NOW(),
\* connected_ip = c.ClientIP().
ConnectTunnel(c) ==
    /\ hpc[c] = "idle"
    /\ \E cr \in Credentials :
         /\ ConnectCheck(cr) = 101
         /\ creds' = [creds EXCEPT ![c] = cr]
         /\ ctid' = [ctid EXCEPT ![c] = cr.tid]
         /\ isActive' = SetActive(cr.tid, TRUE)
         /\ lastSeen' = SetSeen(cr.tid, "connect")
         /\ connectedIp' = SetIp(cr.tid, c)
    /\ sock' = [sock EXCEPT ![c] = "open"]
    /\ hpc' = [hpc EXCEPT ![c] = "marked"]
    /\ UNCHANGED <<rows, fx, rping, chanClosed, activeTunnels, wire, requestCount, pendingReqs, chanBuf,
                   silence, rdr, rpc, rconn, rtmp, rid, browser, spc, sconn,
                   rhost, cause>>

\* Lines 204-247 when a check fails: the answer is 401, 400, 404 or 403 and the handler
\* returns before the upgrade; nothing is written.
ConnectRejected(c) ==
    /\ hpc[c] = "idle"
    /\ \E cr \in Credentials :
         /\ ConnectCheck(cr) # 101
         /\ creds' = [creds EXCEPT ![c] = cr]
    /\ hpc' = [hpc EXCEPT ![c] = "rejected"]
    /\ UNCHANGED <<rows, fx, connectedIp, rping, chanClosed, activeTunnels, isActive, ctid, sock, wire, requestCount, pendingReqs,
                   chanBuf, silence, rdr, rpc, rconn, rtmp, rid, browser, spc, sconn,
                   rhost, cause, lastSeen>>

\* Install with a fault: the entry the key held is kept beside the new one.
InstallKeepingOld(c) ==
    /\ hpc[c] = "marked"
    /\ activeTunnels' = activeTunnels \cup {<<ctid[c], c>>}
    /\ requestCount' = [requestCount EXCEPT ![c] = 0]
    /\ pendingReqs' = [pendingReqs EXCEPT ![c] = {}]
    /\ hpc' = [hpc EXCEPT ![c] = "installed"]
    /\ UNCHANGED <<rows, fx, connectedIp, rping, chanClosed, isActive, ctid, sock, wire, chanBuf, silence, rdr, rpc, rconn,
                   rtmp, rid, browser, spc, sconn,
                   rhost, cause, lastSeen, creds>>

\* Lines 293-307: the SELECT of local_port returns the row's; NewTunnelProtocol, then h.activeTunnels[tunnelID] = tunnelProtocol
\* under tunnelsMutex.  Whatever session the key held is overwritten, nothing else
\* is done to it.
Install(c) ==
    /\ hpc[c] = "marked"
    /\ ctid[c] \in rows
    /\ activeTunnels' = MapPut(activeTunnels, ctid[c], c)
    /\ requestCount' = [requestCount EXCEPT ![c] = 0]
    /\ pendingReqs' = [pendingReqs EXCEPT ![c] = {}]
    /\ hpc' = [hpc EXCEPT ![c] = "installed"]
    /\ UNCHANGED <<rows, fx, connectedIp, rping, chanClosed, isActive, ctid, sock, wire, chanBuf, silence, rdr, rpc, rconn,
                   rtmp, rid, browser, spc, sconn,
                   rhost, cause, lastSeen, creds>>

\* Lines 335-340: handleTunnelConnection enters protocol.SendMessage(connectedMsg).
SendConnectedBegin(c) ==
    /\ hpc[c] = "installed"
    /\ hpc' = [hpc EXCEPT ![c] = "connecting"]
    /\ UNCHANGED <<rows, fx, connectedIp, rping, chanClosed, activeTunnels, isActive, ctid, sock, wire, requestCount, pendingReqs,
                   chanBuf, silence, rdr, rpc, rconn, rtmp, rid, browser, spc, sconn,
                   rhost, cause, lastSeen, creds>>

\* Lines 340-413: the write of connected returns.  On an error the handler returns;
\* otherwise lastHeartbeat = now (line 346), the read deadline is set, the reader
\* starts and the ticker is made (line 413).  The ticker starts after lastHeartbeat
\* was taken, so its n-th tick finds time.Since(lastHeartbeat) above n tick periods.
SendConnectedEnd(c) ==
    /\ hpc[c] = "connecting"
    /\ IF sock[c] = "open"
       THEN /\ wire' = sendMessage(c, Frame("connected", ctid[c], 0))
            /\ hpc' = [hpc EXCEPT ![c] = "loop"]
            /\ rdr' = [rdr EXCEPT ![c] = "reading"]
            /\ silence' = [silence EXCEPT ![c] = 1]
            /\ UNCHANGED cause
       ELSE /\ hpc' = [hpc EXCEPT ![c] = "returned"]
            /\ cause' = [cause EXCEPT ![c] = "connected_write"]
            /\ UNCHANGED <<wire, rdr, silence>>
    /\ UNCHANGED <<rows, fx, connectedIp, rping, chanClosed, activeTunnels, isActive, ctid, sock, requestCount, pendingReqs,
                   chanBuf, rpc, rconn, rtmp, rid, browser, spc, sconn,
                   rhost, lastSeen, creds>>

\* The write of connected ran into another writer and panicked: gin's Recovery
\* ends the handler, the deferred conn.Close() (line 255) runs, and lines 316-328
\* are never reached.
SendConnectedPanic(c) ==
    /\ hpc[c] = "connecting"
    /\ Overlapped(c, <<"handler", c>>)
    /\ hpc' = [hpc EXCEPT ![c] = "panicked"]
    /\ cause' = [cause EXCEPT ![c] = "panic"]
    /\ sock' = [sock EXCEPT ![c] = "closed"]
    /\ UNCHANGED <<rows, fx, connectedIp, rping, chanClosed, activeTunnels, isActive, ctid, wire, requestCount, pendingReqs, chanBuf,
                   silence, rdr, rpc, rconn, rtmp, rid, browser, spc, sconn,
                   rhost, lastSeen, creds>>

\* A tick whose timeout check lets one more tick period pass.
HeartbeatTickLate(c) ==
    /\ hpc[c] = "loop"
    /\ IF silence[c] * TickPeriod > HeartbeatTimeout
       THEN /\ isActive' = SetActive(ctid[c], FALSE)
            /\ hpc' = [hpc EXCEPT ![c] = "returned"]
            /\ cause' = [cause EXCEPT ![c] = "heartbeat"]
            /\ silence' = [silence EXCEPT ![c] = 0]
       ELSE IF sock[c] = "open"
       THEN /\ silence' = [silence EXCEPT ![c] = @ + 1]
            /\ UNCHANGED <<hpc, isActive, cause>>
       ELSE /\ hpc' = [hpc EXCEPT ![c] = "returned"]
            /\ cause' = [cause EXCEPT ![c] = "ping_write"]
            /\ silence' = [silence EXCEPT ![c] = 0]
            /\ UNCHANGED isActive
    /\ UNCHANGED <<rows, fx, connectedIp, rping, chanClosed, activeTunnels, ctid, sock, wire, requestCount, pendingReqs, chanBuf,
                   rdr, rpc, rconn, rtmp, rid, browser, spc, sconn,
                   rhost, lastSeen, creds>>

\* A faulty HeartbeatTick: the timeout is found exceeded one tick too early.
HeartbeatTickEarly(c) ==
    /\ hpc[c] = "loop"
    /\ IF (silence[c] + 2) * TickPeriod > HeartbeatTimeout
       THEN /\ isActive' = SetActive(ctid[c], FALSE)
            /\ hpc' = [hpc EXCEPT ![c] = "returned"]
            /\ cause' = [cause EXCEPT ![c] = "heartbeat"]
            /\ silence' = [silence EXCEPT ![c] = 0]
       ELSE IF sock[c] = "open"
       THEN /\ silence' = [silence EXCEPT ![c] = @ + 1]
            /\ UNCHANGED <<hpc, isActive, cause>>
       ELSE /\ hpc' = [hpc EXCEPT ![c] = "returned"]
            /\ cause' = [cause EXCEPT ![c] = "ping_write"]
            /\ silence' = [silence EXCEPT ![c] = 0]
            /\ UNCHANGED isActive
    /\ UNCHANGED <<rows, fx, connectedIp, rping, chanClosed, activeTunnels, ctid, sock, wire, requestCount, pendingReqs, chanBuf,
                   rdr, rpc, rconn, rtmp, rid, browser, spc, sconn,
                   rhost, lastSeen, creds>>

\* Lines 422-443: a tick of the 15 s ticker.  time.Since(lastHeartbeat) > 45 s marks
\* the row inactive and returns; otherwise a control-frame ping is written, and a
\* failed write returns.  (lastHeartbeat is a local of handleTunnelConnection: it is
\* gone once the function returns.)
HeartbeatTick(c) ==
    /\ hpc[c] = "loop"
    /\ IF (silence[c] + 1) * TickPeriod > HeartbeatTimeout
       THEN /\ isActive' = SetActive(ctid[c], FALSE)
            /\ hpc' = [hpc EXCEPT ![c] = "returned"]
            /\ cause' = [cause EXCEPT ![c] = "heartbeat"]
            /\ silence' = [silence EXCEPT ![c] = 0]
       ELSE IF sock[c] = "open"
       THEN /\ silence' = [silence EXCEPT ![c] = @ + 1]
            /\ UNCHANGED <<hpc, isActive, cause>>
       ELSE /\ hpc' = [hpc EXCEPT ![c] = "returned"]
            /\ cause' = [cause EXCEPT ![c] = "ping_write"]
            /\ silence' = [silence EXCEPT ![c] = 0]
            /\ UNCHANGED isActive
    /\ UNCHANGED <<rows, fx, connectedIp, rping, chanClosed, activeTunnels, ctid, sock, wire, requestCount, pendingReqs, chanBuf,
                   rdr, rpc, rconn, rtmp, rid, browser, spc, sconn,
                   rhost, lastSeen, creds>>

\* Lines 418-421: readDone is closed, the loop returns.
ReadDone(c) ==
    /\ hpc[c] = "loop"
    /\ rdr[c] = "exited"
    /\ hpc' = [hpc EXCEPT ![c] = "returned"]
    /\ cause' = [cause EXCEPT ![c] = "read_done"]
    /\ silence' = [silence EXCEPT ![c] = 0]
    /\ UNCHANGED <<rows, fx, connectedIp, rping, chanClosed, activeTunnels, isActive, ctid, sock, wire, requestCount, pendingReqs,
                   chanBuf, rdr, rpc, rconn, rtmp, rid, browser, spc, sconn,
                   rhost, lastSeen, creds>>

\* Lines 316-319: delete(h.activeTunnels, tunnelID) under tunnelsMutex, whatever
\* session the key holds.
RemoveTunnel(c) ==
    /\ hpc[c] = "returned"
    /\ activeTunnels' = MapDelete(activeTunnels, ctid[c])
    /\ hpc' = [hpc EXCEPT ![c] = "removed"]
    /\ UNCHANGED <<rows, fx, connectedIp, rping, chanClosed, isActive, ctid, sock, wire, requestCount, pendingReqs, chanBuf,
                   silence, rdr, rpc, rconn, rtmp, rid, browser, spc, sconn,
                   rhost, cause, lastSeen, creds>>

\* A faulty MarkInactive: ConnectTunnel returns without closing the socket.
MarkInactiveKeepsSocket(c) ==
    /\ hpc[c] = "removed"
    /\ isActive' = SetActive(ctid[c], FALSE)
    /\ lastSeen' = SetSeen(ctid[c], "disconnect")
    /\ hpc' = [hpc EXCEPT ![c] = "exited"]
    /\ UNCHANGED <<rows, fx, connectedIp, rping, chanClosed, activeTunnels, ctid, sock, wire, requestCount, pendingReqs, chanBuf,
                   silence, rdr, rpc, rconn, rtmp, rid, browser, spc, sconn,
                   rhost, cause, creds>>

\* Lines 321-331: UPDATE tunnels SET is_active = false, last_seen = NOW(), then
\* ConnectTunnel returns and the deferred conn.Close() (line 255) closes the socket.
MarkInactive(c) ==
    /\ hpc[c] = "removed"
    /\ isActive' = SetActive(ctid[c], FALSE)
    /\ lastSeen' = SetSeen(ctid[c], "disconnect")
    /\ sock' = [sock EXCEPT ![c] = "closed"]
    /\ hpc' = [hpc EXCEPT ![c] = "exited"]
    /\ UNCHANGED <<rows, fx, connectedIp, rping, chanClosed, activeTunnels, ctid, wire, requestCount, pendingReqs, chanBuf,
                   silence, rdr, rpc, rconn, rtmp, rid, browser, spc, sconn,
                   rhost, cause, creds>>

\* ------------------------------------------------- the reader goroutine
\* Lines 385-396: ReadMessage returns an error (the peer is gone, or the socket was
\* closed by the deferred conn.Close()), the goroutine returns and closes readDone.
ReadError(c) ==
    /\ rdr[c] = "reading"
    /\ sock[c] # "open"
    /\ rdr' = [rdr EXCEPT ![c] = "exited"]
    /\ UNCHANGED <<rows, fx, connectedIp, rping, chanClosed, activeTunnels, isActive, hpc, ctid, sock, wire, requestCount, pendingReqs,
                   chanBuf, silence, rpc, rconn, rtmp, rid, browser, spc, sconn,
                   rhost, cause, lastSeen, creds>>

\* A faulty handleHTTPResponse: the message is queued behind what the channel holds.
handleHTTPResponseQueued(c, m) ==
    IF MapHas(pendingReqs[c], m.id)
    THEN [chanBuf EXCEPT ![MapGet(pendingReqs[c], m.id)] = Append(@, m)]
    ELSE chanBuf

\* handleHTTPResponse (part_001 452-463) on the buffers: a non-blocking send to the
\* channel pendingReqs holds for message.ID; with no entry, or with the buffer
\* full, the message is dropped.
handleHTTPResponse(c, m) ==
    IF MapHas(pendingReqs[c], m.id)
    THEN LET ch == MapGet(pendingReqs[c], m.id)
         IN  IF chanBuf[ch] = <<>> THEN [chanBuf EXCEPT ![ch] = <<m>>] ELSE chanBuf
    ELSE chanBuf

\* Lines 385-408 with HandleTunnelMessage's case "http_response": the agent answers
\* the http_request frame at place k of what it has read, with that frame's id.
ReadHTTPResponse(c, k) ==
    /\ rdr[c] = "reading"
    /\ sock[c] = "open"
    /\ wire[c][k].type = "http_request"
    /\ chanBuf' = handleHTTPResponse(c, [id |-> wire[c][k].id, re |-> wire[c][k].req])
    /\ silence' = [silence EXCEPT ![c] = 0]
    /\ UNCHANGED <<rows, fx, connectedIp, rping, chanClosed, activeTunnels, isActive, hpc, ctid, sock, wire, requestCount, pendingReqs,
                   rdr, rpc, rconn, rtmp, rid, browser, spc, sconn,
                   rhost, cause, lastSeen, creds>>

\* A reader that takes a frame it cannot handle for an error of the socket.
ReadOtherFatal(c) ==
    /\ rdr[c] = "reading"
    /\ sock[c] = "open"
    /\ rdr' = [rdr EXCEPT ![c] = "exited"]
    /\ UNCHANGED <<rows, fx, connectedIp, rping, chanClosed, activeTunnels, isActive, hpc, ctid, sock, wire, requestCount,
                   pendingReqs, chanBuf, silence, rpc, rconn, rtmp, rid, browser, spc, sconn,
                   rhost, cause, lastSeen, creds>>

\* Lines 385-408 for a frame that changes nothing else: one that json.Unmarshal
\* rejects (HandleTunnelMessage returns the error, which is logged, lines 402-404),
\* one of an unknown type (logged, part_001 446-447), a pong, or a control-frame
\* ping or pong (lines 350-370).  lastHeartbeat is refreshed (line 407).
ReadOther(c) ==
    /\ rdr[c] = "reading"
    /\ sock[c] = "open"
    /\ silence' = [silence EXCEPT ![c] = 0]
    /\ UNCHANGED <<rows, fx, connectedIp, rping, chanClosed, activeTunnels, isActive, hpc, ctid, sock, wire, requestCount, pendingReqs,
                   chanBuf, rdr, rpc, rconn, rtmp, rid, browser, spc, sconn,
                   rhost, cause, lastSeen, creds>>

\* The agent goes away: its end of the connection is closed or reset.
AgentDisconnect(c) ==
    /\ sock[c] = "open"
    /\ sock' = [sock EXCEPT ![c] = "broken"]
    /\ UNCHANGED <<rows, fx, connectedIp, rping, chanClosed, activeTunnels, isActive, hpc, ctid, wire, requestCount, pendingReqs,
                   chanBuf, silence, rdr, rpc, rconn, rtmp, rid, browser, spc, sconn,
                   rhost, cause, lastSeen, creds>>

\* ------------------------------------------------- browser requests
\* What the browser is sent: a status, which body, and (for a relayed
\* http_response) the request whose frame the agent answered.
Reply(status, body, re) == [status |-> status, body |-> body, re |-> re]

\* A SELECT that misses only the rows that are not active.
NoRowsInactiveOnly(h) == h \in rows /\ ~isActive[h]

\* A SELECT that never returns a row.
NoRowsAlways(h) == TRUE

\* The SELECT of part_001 217-221, WHERE subdomain = $1 AND is_active = true,
\* returns sql.ErrNoRows: no row has the subdomain, or the row is not active.
NoRows(h) == h \notin rows \/ ~isActive[h]

\* HandleSubdomain (part_001 212-273) for the subdomain t of the Host: no row gives
\* the not-found page (the row returned has is_active = true, so the offline page
\* of lines 241-251 is never sent); then GetActiveTunnel (tunnel.go 513-519), no
\* session gives the connection-lost page; otherwise the request goes to the
\* session found.
HandleSubdomain(r) ==
    /\ rpc[r] = "idle"
    /\ \E t \in Hosts :
         /\ rhost' = [rhost EXCEPT ![r] = t]
         /\ IF NoRows(t)
            THEN /\ browser' = [browser EXCEPT ![r] = Append(@, Reply(404, "not_found", 0))]
                 /\ rpc' = [rpc EXCEPT ![r] = "done"]
                 /\ UNCHANGED rconn
            ELSE IF ~MapHas(activeTunnels, t)
            THEN /\ browser' = [browser EXCEPT ![r] = Append(@, Reply(503, "connection_lost", 0))]
                 /\ rpc' = [rpc EXCEPT ![r] = "done"]
                 /\ UNCHANGED rconn
            ELSE /\ rconn' = [rconn EXCEPT ![r] = MapGet(activeTunnels, t)]
                 /\ rpc' = [rpc EXCEPT ![r] = "load"]
                 /\ UNCHANGED browser
    /\ UNCHANGED <<rows, fx, connectedIp, rping, chanClosed, activeTunnels, isActive, hpc, ctid, sock, wire, requestCount, pendingReqs,
                   chanBuf, silence, rdr, rtmp, rid, spc, sconn,
                   cause, lastSeen, creds>>

\* HandleIncomingHTTPRequest line 330, tp.requestCount++ of a plain int64 field:
\* the load ...
LoadCount(r) ==
    /\ rpc[r] = "load"
    /\ rtmp' = [rtmp EXCEPT ![r] = requestCount[rconn[r]]]
    /\ rpc' = [rpc EXCEPT ![r] = "store"]
    /\ UNCHANGED <<rows, fx, connectedIp, rping, chanClosed, activeTunnels, isActive, hpc, ctid, sock, wire, requestCount, pendingReqs,
                   chanBuf, silence, rdr, rconn, rid, browser, spc, sconn,
                   rhost, cause, lastSeen, creds>>

\* ... and the store of the incremented value.
StoreCount(r) ==
    /\ rpc[r] = "store"
    /\ requestCount' = [requestCount EXCEPT ![rconn[r]] = rtmp[r] + 1]
    /\ rtmp' = [rtmp EXCEPT ![r] = 0]
    /\ rpc' = [rpc EXCEPT ![r] = "makeid"]
    /\ UNCHANGED <<rows, fx, connectedIp, rping, chanClosed, activeTunnels, isActive, hpc, ctid, sock, wire, pendingReqs,
                   chanBuf, silence, rdr, rconn, rid, browser, spc, sconn,
                   rhost, cause, lastSeen, creds>>

\* Lines 331-363: requestID is formatted from a second read of tp.requestCount;
\* the body is read and the message built; responseChan := make(chan *TunnelMessage, 1);
\* tp.pendingReqs[requestID] = responseChan; tp.sendMessage(message) is entered.
Reserve(r) ==
    /\ rpc[r] = "makeid"
    /\ r \notin WsReq
    /\ LET id == RequestID(ctid[rconn[r]], requestCount[rconn[r]])
       IN  /\ rid' = [rid EXCEPT ![r] = id]
           /\ pendingReqs' = [pendingReqs EXCEPT ![rconn[r]] = MapPut(@, id, r)]
    /\ rpc' = [rpc EXCEPT ![r] = "sending"]
    /\ UNCHANGED <<rows, fx, connectedIp, rping, chanClosed, activeTunnels, isActive, hpc, ctid, sock, wire, requestCount,
                   chanBuf, silence, rdr, rconn, rtmp, browser, spc, sconn,
                   rhost, cause, lastSeen, creds>>

\* Lines 363-370: sendMessage returns.  An error deletes the entry and answers 502;
\* otherwise the handler waits in the select.
SendRequestEnd(r) ==
    /\ rpc[r] = "sending"
    /\ IF sock[rconn[r]] = "open"
       THEN /\ wire' = sendMessage(rconn[r], Frame("http_request", rid[r], r))
            /\ rpc' = [rpc EXCEPT ![r] = "wait"]
            /\ UNCHANGED <<pendingReqs, browser>>
       ELSE /\ pendingReqs' = [pendingReqs EXCEPT ![rconn[r]] = MapDelete(@, rid[r])]
            /\ browser' = [browser EXCEPT ![r] = Append(@, Reply(502, "send_failed", 0))]
            /\ rpc' = [rpc EXCEPT ![r] = "done"]
            /\ UNCHANGED wire
    /\ UNCHANGED <<rows, fx, connectedIp, rping, chanClosed, activeTunnels, isActive, hpc, ctid, sock, requestCount,
                   chanBuf, silence, rdr, rconn, rtmp, rid, spc, sconn,
                   rhost, cause, lastSeen, creds>>

\* The write of the request ran into another writer and panicked, before or after
\* the frame went out: gin's Recovery (main.go 37) answers 500 and the handler is
\* gone, lines 364-377 never run.
SendRequestPanic(r) ==
    /\ rpc[r] = "sending"
    /\ Overlapped(rconn[r], <<"req", r>>)
    /\ \E sent \in BOOLEAN :
         wire' = IF sent /\ sock[rconn[r]] = "open"
                 THEN sendMessage(rconn[r], Frame("http_request", rid[r], r))
                 ELSE wire
    /\ browser' = [browser EXCEPT ![r] = Append(@, Reply(500, "panic", 0))]
    /\ rpc' = [rpc EXCEPT ![r] = "done"]
    /\ UNCHANGED <<rows, fx, connectedIp, rping, chanClosed, activeTunnels, isActive, hpc, ctid, sock, requestCount, pendingReqs,
                   chanBuf, silence, rdr, rconn, rtmp, rid, spc, sconn,
                   rhost, cause, lastSeen, creds>>

\* Lines 371-373: case response := <-responseChan: writeHTTPResponse, then
\* delete(tp.pendingReqs, requestID).
ReceiveResponse(r) ==
    /\ rpc[r] = "wait"
    /\ chanBuf[r] # <<>>
    /\ browser' = [browser EXCEPT ![r] = Append(@, Reply(200, "response", chanBuf[r][1].re))]
    /\ chanBuf' = [chanBuf EXCEPT ![r] = <<>>]
    /\ pendingReqs' = [pendingReqs EXCEPT ![rconn[r]] = MapDelete(@, rid[r])]
    /\ rpc' = [rpc EXCEPT ![r] = "done"]
    /\ UNCHANGED <<rows, fx, connectedIp, rping, chanClosed, activeTunnels, isActive, hpc, ctid, sock, wire, requestCount,
                   silence, rdr, rconn, rtmp, rid, spc, sconn,
                   rhost, cause, lastSeen, creds>>

\* A faulty RequestTimeout: the entry is left in the table.
RequestTimeoutNoDelete(r) ==
    /\ rpc[r] = "wait"
    /\ chanBuf[r] = <<>>
    /\ browser' = [browser EXCEPT ![r] = Append(@, Reply(504, "timeout", 0))]
    /\ rpc' = [rpc EXCEPT ![r] = "done"]
    /\ UNCHANGED <<rows, fx, connectedIp, rping, chanClosed, activeTunnels, isActive, hpc, ctid, sock, wire, requestCount, pendingReqs,
                   chanBuf, silence, rdr, rconn, rtmp, rid, spc, sconn,
                   rhost, cause, lastSeen, creds>>

\* Lines 374-376: case <-time.After(30 * time.Second): the timer fires with nothing
\* sent to responseChan (a send wakes the select at once, so the timer only wins
\* over an empty channel): delete(tp.pendingReqs, requestID), then 504.
RequestTimeout(r) ==
    /\ rpc[r] = "wait"
    /\ chanBuf[r] = <<>>
    /\ pendingReqs' = [pendingReqs EXCEPT ![rconn[r]] = MapDelete(@, rid[r])]
    /\ browser' = [browser EXCEPT ![r] = Append(@, Reply(504, "timeout", 0))]
    /\ rpc' = [rpc EXCEPT ![r] = "done"]
    /\ UNCHANGED <<rows, fx, connectedIp, rping, chanClosed, activeTunnels, isActive, hpc, ctid, sock, wire, requestCount,
                   chanBuf, silence, rdr, rconn, rtmp, rid, spc, sconn,
                   rhost, cause, lastSeen, creds>>

\* ------------------------------------------------------------ StopTunnel
\* A StopTunnel that leaves the row alone when it finds no session.
StopTunnelNoReconcile ==
    /\ spc = "idle"
    /\ \E t \in rows :
         IF MapHas(activeTunnels, t)
         THEN /\ sconn' = MapGet(activeTunnels, t)
              /\ spc' = "terminating"
         ELSE /\ spc' = "reconciled"
              /\ UNCHANGED sconn
    /\ UNCHANGED <<rows, fx, connectedIp, rping, chanClosed, activeTunnels, hpc, ctid, sock, wire, requestCount, pendingReqs,
                   chanBuf, silence, rdr, rpc, rconn, rtmp, rid, browser,
                   rhost, cause, creds, isActive, lastSeen>>

\* Lines 479-495: activeTunnels is read under the read lock; with no session the row
\* is updated, is_active = false, last_seen = NOW(), and 200 "Tunnel was not
\* connected; marked inactive" is answered.  With a session SendTerminate is entered.
StopTunnel ==
    /\ spc = "idle"
    /\ \E t \in rows :
         IF MapHas(activeTunnels, t)
         THEN /\ sconn' = MapGet(activeTunnels, t)
              /\ spc' = "terminating"
              /\ UNCHANGED <<isActive, lastSeen>>
         ELSE /\ isActive' = SetActive(t, FALSE)
              /\ lastSeen' = SetSeen(t, "reconcile")
              /\ spc' = "reconciled"
              /\ UNCHANGED sconn
    /\ UNCHANGED <<rows, fx, connectedIp, rping, chanClosed, activeTunnels, hpc, ctid, sock, wire, requestCount, pendingReqs,
                   chanBuf, silence, rdr, rpc, rconn, rtmp, rid, browser,
                   rhost, cause, creds>>

\* Lines 497-510: SendTerminate returns.  An error answers 500 "Failed to stop
\* tunnel"; otherwise the row is updated, is_active = false, and 200 "Tunnel stop
\* signal sent successfully" is answered.  The session is left as it is: it stays
\* in activeTunnels and its socket stays open.
SendTerminateEnd ==
    /\ spc = "terminating"
    /\ IF sock[sconn] = "open"
       THEN /\ wire' = sendMessage(sconn, Frame("terminate", ctid[sconn], 0))
            /\ isActive' = SetActive(ctid[sconn], FALSE)
            /\ spc' = "sent"
       ELSE /\ spc' = "failed"
            /\ UNCHANGED <<wire, isActive>>
    /\ sconn' = 0
    /\ UNCHANGED <<rows, fx, connectedIp, rping, chanClosed, activeTunnels, hpc, ctid, sock, requestCount, pendingReqs,
                   chanBuf, silence, rdr, rpc, rconn, rtmp, rid, browser,
                   rhost, cause, lastSeen, creds>>

\* SendTerminate ran into another writer and panicked: gin's Recovery answers 500.
SendTerminatePanic ==
    /\ spc = "terminating"
    /\ Overlapped(sconn, <<"stop", 0>>)
    /\ spc' = "panicked"
    /\ sconn' = 0
    /\ UNCHANGED <<rows, fx, connectedIp, rping, chanClosed, activeTunnels, isActive, hpc, ctid, sock, wire, requestCount, pendingReqs,
                   chanBuf, silence, rdr, rpc, rconn, rtmp, rid, browser,
                   rhost, cause, lastSeen, creds>>

\* ------------------------------------------- ConnectTunnel, database errors
\* Lines 203-287 when the checks pass and the UPDATE of line 278 returns an error:
\* the request was upgraded, a raw terminate frame is written to the socket, the
\* handler returns and the deferred conn.Close() (line 255) closes the socket.  The
\* row is as the failed statement found it.
ConnectUpdateFails(c) ==
    /\ hpc[c] = "idle"
    /\ \E cr \in Credentials :
         /\ ConnectCheck(cr) = 101
         /\ creds' = [creds EXCEPT ![c] = cr]
         /\ ctid' = [ctid EXCEPT ![c] = cr.tid]
         /\ wire' = sendMessage(c, Frame("terminate", cr.tid, 0))
    /\ sock' = [sock EXCEPT ![c] = "closed"]
    /\ hpc' = [hpc EXCEPT ![c] = "db_failed"]
    /\ cause' = [cause EXCEPT ![c] = "update_failed"]
    /\ UNCHANGED <<rows, fx, connectedIp, rping, chanClosed, activeTunnels, isActive, requestCount, pendingReqs, chanBuf,
                   silence, rdr, rpc, rconn, rtmp, rid, browser, spc, sconn,
                   rhost, lastSeen>>

\* Lines 293-299: the SELECT of local_port returns an error (the database failed,
\* or the row is gone).  A raw terminate frame is written, the handler returns and
\* the deferred conn.Close() closes the socket.  No statement follows: the row
\* keeps the is_active = true the UPDATE of line 278 gave it.
LocalPortFails(c) ==
    /\ hpc[c] = "marked"
    /\ wire' = sendMessage(c, Frame("terminate", ctid[c], 0))
    /\ sock' = [sock EXCEPT ![c] = "closed"]
    /\ hpc' = [hpc EXCEPT ![c] = "db_failed"]
    /\ cause' = [cause EXCEPT ![c] = "local_port_failed"]
    /\ UNCHANGED <<rows, fx, connectedIp, rping, chanClosed, activeTunnels, isActive, ctid, requestCount, pendingReqs,
                   chanBuf, silence, rdr, rpc, rconn, rtmp, rid, browser, spc, sconn,
                   rhost, lastSeen, creds>>

\* ------------------------------------------------------------ DeleteTunnel
\* DeleteTunnel (tunnel.go 171-201) for a tunnel of the user: DELETE FROM tunnels
\* WHERE id = $1 AND user_id = $2 removes the row and 200 is answered.  The
\* handler reads and writes nothing else.
DeleteTunnel(t) ==
    /\ t \in rows
    /\ rows' = rows \ {t}
    /\ UNCHANGED <<fx, connectedIp, rping, chanClosed, activeTunnels, isActive, hpc, ctid,
                   sock, wire, requestCount, pendingReqs, chanBuf, silence, rdr, rpc, rconn,
                   rtmp, rid, browser, spc, sconn, rhost, cause, lastSeen, creds>>

\* ------------------------------------------------- WebSocket upgrades
\* The websocket_data frames one browser socket is followed for.
MaxMsgs == 2

\* The statuses an agent answers a websocket_upgrade with.
UpgradeStatuses == {101, 403}

\* fmt.Sprintf("%s-ws-%d", tp.tunnelID, tp.requestCount)
UpgradeID(t, n) == <<t, n, "ws">>

\* isWebSocketUpgrade(c.Request) (part_001 277-280): the request carries
\* Connection: upgrade and Upgrade: websocket.
isWebSocketUpgrade(r) == r \in WsReq

\* The websocket_data frames of request r written to its session's socket.
Forwarded(r) ==
    {i \in 1..Len(wire[rconn[r]]) :
        wire[rconn[r]][i].type = "websocket_data" /\ wire[rconn[r]][i].req = r}

\* HandleWebSocketUpgrade lines 383-406 (the counter was incremented as in
\* LoadCount and StoreCount): requestID is formatted from a read of
\* tp.requestCount, the message is built, the channel is made and put in
\* pendingReqs, tp.sendMessage(message) is entered.
UpgradeReserve(r) ==
    /\ rpc[r] = "makeid"
    /\ isWebSocketUpgrade(r)
    /\ LET id == UpgradeID(ctid[rconn[r]], requestCount[rconn[r]])
       IN  /\ rid' = [rid EXCEPT ![r] = id]
           /\ pendingReqs' = [pendingReqs EXCEPT ![rconn[r]] = MapPut(@, id, r)]
    /\ rpc' = [rpc EXCEPT ![r] = "ws_sending"]
    /\ UNCHANGED <<rows, fx, connectedIp, rping, chanClosed, activeTunnels, isActive, hpc, ctid, sock, wire, requestCount,
                   chanBuf, silence, rdr, rconn, rtmp, browser, spc, sconn,
                   rhost, cause, lastSeen, creds>>

\* Lines 406-413: sendMessage returns.  An error deletes the entry and answers 502;
\* otherwise the handler waits in the select.
SendUpgradeEnd(r) ==
    /\ rpc[r] = "ws_sending"
    /\ IF sock[rconn[r]] = "open"
       THEN /\ wire' = sendMessage(rconn[r], Frame("websocket_upgrade", rid[r], r))
            /\ rpc' = [rpc EXCEPT ![r] = "ws_wait"]
            /\ UNCHANGED <<pendingReqs, browser>>
       ELSE /\ pendingReqs' = [pendingReqs EXCEPT ![rconn[r]] = MapDelete(@, rid[r])]
            /\ browser' = [browser EXCEPT ![r] = Append(@, Reply(502, "ws_send_failed", 0))]
            /\ rpc' = [rpc EXCEPT ![r] = "done"]
            /\ UNCHANGED wire
    /\ UNCHANGED <<rows, fx, connectedIp, rping, chanClosed, activeTunnels, isActive, hpc, ctid, sock, requestCount,
                   chanBuf, silence, rdr, rconn, rtmp, rid, spc, sconn,
                   rhost, cause, lastSeen, creds>>

\* The write of the upgrade request ran into another writer and panicked, before or
\* after the frame went out: gin's Recovery (main.go 37) answers 500 and the
\* handler is gone, lines 407-424 never run.
SendUpgradePanic(r) ==
    /\ rpc[r] = "ws_sending"
    /\ Overlapped(rconn[r], <<"req", r>>)
    /\ \E sent \in BOOLEAN :
         wire' = IF sent /\ sock[rconn[r]] = "open"
                 THEN sendMessage(rconn[r], Frame("websocket_upgrade", rid[r], r))
                 ELSE wire
    /\ browser' = [browser EXCEPT ![r] = Append(@, Reply(500, "panic", 0))]
    /\ rpc' = [rpc EXCEPT ![r] = "done"]
    /\ UNCHANGED <<rows, fx, connectedIp, rping, chanClosed, activeTunnels, isActive, hpc, ctid, sock, requestCount,
                   pendingReqs, chanBuf, silence, rdr, rconn, rtmp, rid, spc, sconn,
                   rhost, cause, lastSeen, creds>>

\* handleWebSocketUpgradeResponse (part_001 465-474) on the buffers: the same
\* non-blocking send as handleHTTPResponse.
handleWebSocketUpgradeResponse(c, m) ==
    IF MapHas(pendingReqs[c], m.id)
    THEN LET ch == MapGet(pendingReqs[c], m.id)
         IN  IF chanBuf[ch] = <<>> THEN [chanBuf EXCEPT ![ch] = <<m>>] ELSE chanBuf
    ELSE chanBuf

\* tunnel.go 385-408 with HandleTunnelMessage's case "websocket_upgrade_response":
\* the agent answers the websocket_upgrade frame at place k of what it has read,
\* with that frame's id and the status st.
ReadUpgradeResponse(c, k, st) ==
    /\ rdr[c] = "reading"
    /\ sock[c] = "open"
    /\ wire[c][k].type = "websocket_upgrade"
    /\ chanBuf' = handleWebSocketUpgradeResponse(c,
                      [id |-> wire[c][k].id, re |-> wire[c][k].req, status |-> st])
    /\ silence' = [silence EXCEPT ![c] = 0]
    /\ UNCHANGED <<rows, fx, connectedIp, rping, chanClosed, activeTunnels, isActive, hpc, ctid, sock, wire, requestCount,
                   pendingReqs, rdr, rpc, rconn, rtmp, rid, browser, spc, sconn,
                   rhost, cause, lastSeen, creds>>

\* Lines 415-421 and 516-527: a response is taken from responseChan.  With status
\* 101 handleWebSocketTunnel upgrades the browser's connection (the browser is
\* sent 101 Switching Protocols) and enters its read loop, the entry staying in
\* pendingReqs; with another status writeHTTPResponse forwards the response and
\* the entry is deleted.
ReceiveUpgradeResponse(r) ==
    /\ rpc[r] = "ws_wait"
    /\ chanBuf[r] # <<>>
    /\ IF chanBuf[r][1].status = 101
       THEN /\ browser' = [browser EXCEPT ![r] =
                              Append(@, Reply(101, "switching_protocols", chanBuf[r][1].re))]
            /\ rpc' = [rpc EXCEPT ![r] = "bridging"]
            /\ UNCHANGED pendingReqs
       ELSE /\ browser' = [browser EXCEPT ![r] =
                              Append(@, Reply(chanBuf[r][1].status, "response", chanBuf[r][1].re))]
            /\ pendingReqs' = [pendingReqs EXCEPT ![rconn[r]] = MapDelete(@, rid[r])]
            /\ rpc' = [rpc EXCEPT ![r] = "done"]
    /\ chanBuf' = [chanBuf EXCEPT ![r] = <<>>]
    /\ UNCHANGED <<rows, fx, connectedIp, rping, chanClosed, activeTunnels, isActive, hpc, ctid, sock, wire, requestCount,
                   silence, rdr, rconn, rtmp, rid, spc, sconn,
                   rhost, cause, lastSeen, creds>>

\* Lines 421-424: case <-time.After(10 * time.Second) over an empty channel:
\* delete(tp.pendingReqs, requestID), then 504.
UpgradeTimeout(r) ==
    /\ rpc[r] = "ws_wait"
    /\ chanBuf[r] = <<>>
    /\ pendingReqs' = [pendingReqs EXCEPT ![rconn[r]] = MapDelete(@, rid[r])]
    /\ browser' = [browser EXCEPT ![r] = Append(@, Reply(504, "ws_timeout", 0))]
    /\ rpc' = [rpc EXCEPT ![r] = "done"]
    /\ UNCHANGED <<rows, fx, connectedIp, rping, chanClosed, activeTunnels, isActive, hpc, ctid, sock, wire, requestCount,
                   chanBuf, silence, rdr, rconn, rtmp, rid, spc, sconn,
                   rhost, cause, lastSeen, creds>>

\* Lines 529-544: wsConn.ReadMessage() returns a message of the browser, the
\* websocket_data message is built and tp.sendMessage(tunnelMsg) is entered.
BrowserMessage(r) ==
    /\ rpc[r] = "bridging"
    /\ Cardinality(Forwarded(r)) < MaxMsgs
    /\ rpc' = [rpc EXCEPT ![r] = "forwarding"]
    /\ UNCHANGED <<rows, fx, connectedIp, rping, chanClosed, activeTunnels, isActive, hpc, ctid, sock, wire, requestCount,
                   pendingReqs, chanBuf, silence, rdr, rconn, rtmp, rid, browser, spc,
                   sconn, rhost, cause, lastSeen, creds>>

\* Lines 546-550 and 420: sendMessage returns.  With no error the loop reads the
\* browser again.  An error breaks the loop: the deferred wsConn.Close() (line 527)
\* closes the browser's connection without a close frame (the browser sees an
\* abnormal closure, 1006), handleWebSocketTunnel returns and the entry is deleted.
ForwardEnd(r) ==
    /\ rpc[r] = "forwarding"
    /\ IF sock[rconn[r]] = "open"
       THEN /\ wire' = sendMessage(rconn[r], Frame("websocket_data", rid[r], r))
            /\ rpc' = [rpc EXCEPT ![r] = "bridging"]
            /\ UNCHANGED <<pendingReqs, browser>>
       ELSE /\ browser' = [browser EXCEPT ![r] = Append(@, Reply(1006, "dropped", 0))]
            /\ pendingReqs' = [pendingReqs EXCEPT ![rconn[r]] = MapDelete(@, rid[r])]
            /\ rpc' = [rpc EXCEPT ![r] = "done"]
            /\ UNCHANGED wire
    /\ UNCHANGED <<rows, fx, connectedIp, rping, chanClosed, activeTunnels, isActive, hpc, ctid, sock, requestCount,
                   chanBuf, silence, rdr, rconn, rtmp, rid, spc, sconn,
                   rhost, cause, lastSeen, creds>>

\* The write of a websocket_data frame ran into another writer and panicked: the
\* deferred wsConn.Close() runs as the stack unwinds, gin's Recovery ends the
\* handler (the connection is hijacked, no 500 can be written) and line 420 is
\* never reached.
ForwardPanic(r) ==
    /\ rpc[r] = "forwarding"
    /\ Overlapped(rconn[r], <<"req", r>>)
    /\ \E sent \in BOOLEAN :
         wire' = IF sent /\ sock[rconn[r]] = "open"
                 THEN sendMessage(rconn[r], Frame("websocket_data", rid[r], r))
                 ELSE wire
    /\ browser' = [browser EXCEPT ![r] = Append(@, Reply(1006, "dropped", 0))]
    /\ rpc' = [rpc EXCEPT ![r] = "done"]
    /\ UNCHANGED <<rows, fx, connectedIp, rping, chanClosed, activeTunnels, isActive, hpc, ctid, sock, requestCount,
                   pendingReqs, chanBuf, silence, rdr, rconn, rtmp, rid, spc, sconn,
                   rhost, cause, lastSeen, creds>>

\* Lines 530-534 and 420: the browser sends a close frame.  The connection's default
\* close handler echoes it, ReadMessage returns the close error, the loop breaks,
\* the deferred wsConn.Close() runs and the entry is deleted.  Nothing is written
\* to the agent's socket.
BrowserClose(r) ==
    /\ rpc[r] = "bridging"
    /\ browser' = [browser EXCEPT ![r] = Append(@, Reply(1000, "close_echo", 0))]
    /\ pendingReqs' = [pendingReqs EXCEPT ![rconn[r]] = MapDelete(@, rid[r])]
    /\ rpc' = [rpc EXCEPT ![r] = "done"]
    /\ UNCHANGED <<rows, fx, connectedIp, rping, chanClosed, activeTunnels, isActive, hpc, ctid, sock, wire, requestCount,
                   chanBuf, silence, rdr, rconn, rtmp, rid, spc, sconn,
                   rhost, cause, lastSeen, creds>>

\* tunnel.go 385-408 with HandleTunnelMessage's case "websocket_data" and
\* handleWebSocketData (part_001 476-481): the agent sends a websocket_data frame
\* with the id of the websocket_upgrade frame at place k, whose browser socket is
\* open.  The frame is logged; lastHeartbeat is refreshed.
ReadWebSocketData(c, k) ==
    /\ rdr[c] = "reading"
    /\ sock[c] = "open"
    /\ wire[c][k].type = "websocket_upgrade"
    /\ rpc[wire[c][k].req] \in {"bridging", "forwarding"}
    /\ rid[wire[c][k].req] = wire[c][k].id
    /\ silence' = [silence EXCEPT ![c] = 0]
    /\ UNCHANGED <<rows, fx, connectedIp, rping, chanClosed, activeTunnels, isActive, hpc, ctid, sock, wire, requestCount,
                   pendingReqs, chanBuf, rdr, rpc, rconn, rtmp, rid, browser, spc, sconn,
                   rhost, cause, lastSeen, creds>>

\* ------------------------------------------------------- application ping
\* The ids the agent gives its ping messages, and how many pings it sends.
PingIDs == {"p1", "p2"}

MaxPings == 2

\* The pong messages written to the agent of connection c.
Pongs(c) == {i \in 1..Len(wire[c]) : wire[c][i].type = "pong"}

\* The process is up: no goroutine outside gin's handlers has panicked.
Running == \A c \in Conn : rdr[c] # "crashed"

\* tunnel.go 385-401 with HandleTunnelMessage's case "ping" (part_001 441-442):
\* the reader reads a ping message with the ID id, builds the pong with that ID
\* (part_001 485-489) and enters tp.sendMessage.
ReadPing(c, id) ==
    /\ rdr[c] = "reading"
    /\ sock[c] = "open"
    /\ Cardinality(Pongs(c)) < MaxPings
    /\ rping' = [rping EXCEPT ![c] = id]
    /\ rdr' = [rdr EXCEPT ![c] = "ponging"]
    /\ UNCHANGED <<rows, fx, connectedIp, chanClosed, activeTunnels, isActive, hpc, ctid, sock,
                   wire, requestCount, pendingReqs, chanBuf, silence, rpc, rconn, rtmp, rid,
                   browser, spc, sconn, rhost, cause, lastSeen, creds>>

\* part_001 490 and tunnel.go 402-408: sendMessage returns, the pong written or,
\* on an error, not (the error is logged); lastHeartbeat is refreshed and the
\* reader goes back to ReadMessage.
PongEnd(c) ==
    /\ rdr[c] = "ponging"
    /\ wire' = IF sock[c] = "open" THEN sendMessage(c, Frame("pong", rping[c], 0)) ELSE wire
    /\ rping' = [rping EXCEPT ![c] = ""]
    /\ rdr' = [rdr EXCEPT ![c] = "reading"]
    /\ silence' = [silence EXCEPT ![c] = 0]
    /\ UNCHANGED <<rows, fx, connectedIp, chanClosed, activeTunnels, isActive, hpc, ctid, sock,
                   requestCount, pendingReqs, chanBuf, rpc, rconn, rtmp, rid, browser, spc,
                   sconn, rhost, cause, lastSeen, creds>>

\* The write of the pong ran into another writer and panicked, before or after the
\* frame went out.  The reader is a plain goroutine (tunnel.go 382) with no
\* recover: the panic ends the process.
PongPanic(c) ==
    /\ rdr[c] = "ponging"
    /\ Overlapped(c, <<"reader", c>>)
    /\ \E sent \in BOOLEAN :
         wire' = IF sent /\ sock[c] = "open"
                 THEN sendMessage(c, Frame("pong", rping[c], 0))
                 ELSE wire
    /\ rdr' = [rdr EXCEPT ![c] = "crashed"]
    /\ UNCHANGED <<rows, fx, connectedIp, rping, chanClosed, activeTunnels, isActive, hpc, ctid,
                   sock, requestCount, pendingReqs, chanBuf, silence, rpc, rconn, rtmp, rid,
                   browser, spc, sconn, rhost, cause, lastSeen, creds>>

\* ------------------------------------------------------------------ Close
\* TunnelProtocol.Close (part_001 594-605), called by a holder of the session c
\* that D still gives out: every channel of tp.pendingReqs is closed and its entry
\* deleted, then tp.conn.Close() closes the agent socket.
Close(c) ==
    /\ MapHas(activeTunnels, ctid[c])
    /\ MapGet(activeTunnels, ctid[c]) = c
    /\ sock[c] = "open"
    /\ chanClosed' = chanClosed \cup {p[2] : p \in pendingReqs[c]}
    /\ pendingReqs' = [pendingReqs EXCEPT ![c] = {}]
    /\ sock' = [sock EXCEPT ![c] = "closed"]
    /\ UNCHANGED <<rows, fx, connectedIp, rping, activeTunnels, isActive, hpc, ctid, wire,
                   requestCount, chanBuf, silence, rdr, rpc, rconn, rtmp, rid, browser,
                   spc, sconn, rhost, cause, lastSeen, creds>>

\* Lines 370-373 and 414-420 over a closed, empty channel: the receive yields nil
\* at once, response.Status in writeHTTPResponse (part_001 501), or in line 416,
\* dereferences it and the handler panics; gin's Recovery (main.go 37) answers 500.
ReceiveClosed(r) ==
    /\ rpc[r] \in {"wait", "ws_wait"}
    /\ r \in chanClosed
    /\ chanBuf[r] = <<>>
    /\ browser' = [browser EXCEPT ![r] = Append(@, Reply(500, "panic", 0))]
    /\ rpc' = [rpc EXCEPT ![r] = "done"]
    /\ UNCHANGED <<rows, fx, connectedIp, rping, chanClosed, activeTunnels, isActive, hpc, ctid,
                   sock, wire, requestCount, pendingReqs, chanBuf, silence, rdr, rconn, rtmp,
                   rid, spc, sconn, rhost, cause, lastSeen, creds>>

\* ------------------------------------------------------------------ Next
\* The steps of connection c: its ConnectTunnel handler, its reader, its agent.
ConnNext(c) ==
    \/ ConnectTunnel(c)
    \/ Install(c)
    \/ SendConnectedBegin(c)
    \/ SendConnectedEnd(c)
    \/ SendConnectedPanic(c)
    \/ HeartbeatTick(c)
    \/ ReadDone(c)
    \/ RemoveTunnel(c)
    \/ MarkInactive(c)
    \/ ReadError(c)
    \/ \E k \in 1..Len(wire[c]) : ReadHTTPResponse(c, k)
    \/ ReadOther(c)
    \/ AgentDisconnect(c)

\* The steps of browser request r.
ReqNext(r) ==
    \/ HandleSubdomain(r)
    \/ LoadCount(r)
    \/ StoreCount(r)
    \/ Reserve(r)
    \/ SendRequestEnd(r)
    \/ SendRequestPanic(r)
    \/ ReceiveResponse(r)
    \/ RequestTimeout(r)

\* The steps of the StopTunnel request.
StopNext ==
    \/ StopTunnel
    \/ SendTerminateEnd
    \/ SendTerminatePanic

\* The program with the agent connections cs and the browser requests rs.
NextOf(cs, rs) ==
    \/ \E c \in cs : ConnNext(c)
    \/ \E r \in rs : ReqNext(r)

\* Agents racing for one tunnel while one browser request is served.
Next == NextOf(Conn, {1})

Spec == Init /\ [][Next]_vars

\* One session serving concurrent browser requests.
ExchangeNext == NextOf({1}, Req)

ExchangeSpec == Init /\ [][ExchangeNext]_vars

\* One session and two browser requests while the session is closed.
CloseNext ==
    \/ NextOf({1}, Req)
    \/ Close(1)
    \/ \E r \in Req : ReceiveClosed(r)

CloseSpec == Init /\ [][CloseNext]_vars

\* One session and one browser request while the agent sends ping messages.
PingNext ==
    \/ Running /\ NextOf({1}, {1})
    \/ \E id \in PingIDs : ReadPing(1, id)
    \/ PongEnd(1)
    \/ PongPanic(1)

PingSpec == Init /\ [][PingNext]_vars

\* One session and one browser request, with the goroutines of the session
\* scheduled: a loop whose readDone is closed takes that case of its select, a
\* handler past its loop runs its cleanup to the end, and a reader whose socket
\* is closed or broken gets the error from ReadMessage.
LiveNext == NextOf({1}, {1})

LiveSpec ==
    /\ Init
    /\ [][LiveNext]_vars
    /\ WF_vars(ReadDone(1))
    /\ WF_vars(RemoveTunnel(1))
    /\ WF_vars(MarkInactive(1))
    /\ WF_vars(ReadError(1))

\* One session, one browser request and a StopTunnel request.
StopSpecNext == NextOf({1}, {1}) \/ StopNext

StopSpec == Init /\ [][StopSpecNext]_vars

\* One session and one browser request while connect requests are turned away or
\* fail on the database.
ConnectNext ==
    \/ NextOf({1}, {1})
    \/ \E c \in Conn : ConnectRejected(c)
    \/ \E c \in Conn : ConnectUpdateFails(c)
    \/ \E c \in Conn : LocalPortFails(c)

ConnectSpec == Init /\ [][ConnectNext]_vars

\* One session and one browser request while a tunnel is deleted.
DeleteNext == NextOf({1}, {1}) \/ \E t \in TunnelIDs : DeleteTunnel(t)

DeleteSpec == Init /\ [][DeleteNext]_vars

\* The steps of the browser request r that asks for a WebSocket upgrade.
WsNext(r) ==
    \/ HandleSubdomain(r)
    \/ LoadCount(r)
    \/ StoreCount(r)
    \/ UpgradeReserve(r)
    \/ SendUpgradeEnd(r)
    \/ SendUpgradePanic(r)
    \/ ReceiveUpgradeResponse(r)
    \/ UpgradeTimeout(r)
    \/ BrowserMessage(r)
    \/ ForwardEnd(r)
    \/ ForwardPanic(r)
    \/ BrowserClose(r)

\* What the agent of connection c sends for WebSocket exchanges.
AgentWsNext(c) ==
    \/ \E k \in 1..Len(wire[c]) : \E st \in UpgradeStatuses : ReadUpgradeResponse(c, k, st)
    \/ \E k \in 1..Len(wire[c]) : ReadWebSocketData(c, k)

\* One session, one browser request and one WebSocket upgrade.
BridgeNext ==
    \/ NextOf({1}, {1})
    \/ \E r \in WsReq : WsNext(r)
    \/ AgentWsNext(1)

BridgeSpec == Init /\ [][BridgeNext]_vars

\* ---------------------------------------------------------- HTTP headers
\* Every variable but fx.
program == <<activeTunnels, isActive, hpc, ctid, sock, wire, requestCount, pendingReqs,
             chanBuf, silence, rdr, rpc, rconn, rtmp, rid, browser, spc, sconn,
             rhost, cause, lastSeen, creds, rows, connectedIp, rping, chanClosed>>

\* The maps from some of the names to the values.
HeaderMaps(names, values) == UNION {[S -> values] : S \in SUBSET names}

\* r.Header of a browser request: names as net/http holds them, each with the
\* list of its values.
RequestHeaderNames == {"Accept", "Connection", "Keep-Alive"}
RequestHeaderValues == {<<"v">>, <<"v", "w">>}

\* strings.Join(values, ", "): the values with the separator between them.
Join(vs) == [i \in 1..(2 * Len(vs) - 1) |-> IF i % 2 = 1 THEN vs[(i + 1) \div 2] ELSE ", "]

\* HandleIncomingHTTPRequest lines 341-345: headers[name] = strings.Join(values, ", ")
\* for every name of r.Header; the map is the Headers of the http_request frame.
RequestHeaders(h) == [n \in DOMAIN h |-> Join(h[n])]

\* The Status, Headers and Body an agent puts in an http_response frame: a status
\* left out is 0, header names are as the agent wrote them.
ResponseHeaderNames == {"content-type", "Connection", "X-Trace"}
Responses == [status : {0, 200, 404},
              headers : HeaderMaps(ResponseHeaderNames, {"v"}),
              body : {"", "b"}]

\* textproto.CanonicalMIMEHeaderKey, which http.Header.Set applies to the name.
CanonicalMIMEHeaderKey(n) == IF n = "content-type" THEN "Content-Type" ELSE n

\* A writeHTTPResponse over a writer whose WriteHeader sends the header at once:
\* what Header().Set adds afterwards is not sent.
writeHTTPResponseSentAtOnce(m) ==
    [status |-> IF m.status > 0 THEN m.status ELSE 200,
     headers |-> IF m.status > 0
                 THEN <<>>
                 ELSE [c \in {CanonicalMIMEHeaderKey(n) : n \in DOMAIN m.headers} |->
                         m.headers[CHOOSE n \in DOMAIN m.headers : CanonicalMIMEHeaderKey(n) = c]],
     body |-> m.body]

\* writeHTTPResponse (part_001 499-514) on gin's ResponseWriter (c.Writer, part_001
\* 272): WriteHeader(status) records the status for a status above 0 (200 is
\* recorded otherwise), Header().Set puts each header under its canonical name,
\* and the status and the header map are sent by the first Write, or when the
\* handler returns with nothing written.  What the browser receives.
writeHTTPResponse(m) ==
    [status |-> IF m.status > 0 THEN m.status ELSE 200,
     headers |-> [c \in {CanonicalMIMEHeaderKey(n) : n \in DOMAIN m.headers} |->
                    m.headers[CHOOSE n \in DOMAIN m.headers : CanonicalMIMEHeaderKey(n) = c]],
     body |-> m.body]

\* The calls followed: the headers of a request copied, a response written.
HeaderCalls ==
    {[op |-> "RequestHeaders", arg |-> h, out |-> <<>>, done |-> FALSE] :
        h \in HeaderMaps(RequestHeaderNames, RequestHeaderValues)}
    \cup {[op |-> "writeHTTPResponse", arg |-> m, out |-> <<>>, done |-> FALSE] :
            m \in Responses}

HeaderInit ==
    /\ InitProgram
    /\ fx \in HeaderCalls

\* HandleIncomingHTTPRequest builds the Headers of its http_request frame.
CopyRequestHeaders ==
    /\ fx.op = "RequestHeaders"
    /\ ~fx.done
    /\ fx' = [fx EXCEPT !.out = RequestHeaders(fx.arg), !.done = TRUE]
    /\ UNCHANGED program

\* HandleIncomingHTTPRequest line 372: tp.writeHTTPResponse(w, response).
WriteResponse ==
    /\ fx.op = "writeHTTPResponse"
    /\ ~fx.done
    /\ fx' = [fx EXCEPT !.out = writeHTTPResponse(fx.arg), !.done = TRUE]
    /\ UNCHANGED program

HeaderNext == CopyRequestHeaders \/ WriteResponse

HeaderSpec == HeaderInit /\ [][HeaderNext]_vars

\* ------------------------------------------------------ ValidateSubdomain
\* The longest subdomain every string over Chars is tried up to.
MaxLen == 4

\* The lengths ValidateSubdomain accepts.
MinSubdomainLen == 3
MaxSubdomainLen == 63

\* A string is the sequence of its characters.
Chars == {"a", "p", "i", "3", "-", "A"}

\* strings.ToLower, of a character and of a string.
ToLowerChar(ch) == IF ch = "A" THEN "a" ELSE ch
ToLower(s) == [i \in 1..Len(s) |-> ToLowerChar(s[i])]

\* The entries of ReservedSubdomains that are written with Chars.
ReservedSubdomains == {<<"a", "p", "p">>, <<"a", "p", "i">>, <<"a", "i">>}

\* IsReservedSubdomain (reserved.go 123-131).
IsReservedSubdomain(s) == ToLower(s) \in ReservedSubdomains

\* The character classes of the pattern: [a-z0-9] and [a-z0-9-].
LowerAlnum(ch) == ch \in {"a", "p", "i", "3"}
LowerAlnumHyphen(ch) == LowerAlnum(ch) \/ ch = "-"

\* validSubdomain.MatchString(s) for ^[a-z0-9]([a-z0-9-]*[a-z0-9])?$
MatchString(s) ==
    /\ Len(s) >= 1
    /\ LowerAlnum(s[1])
    /\ LowerAlnum(s[Len(s)])
    /\ \A i \in 1..Len(s) : LowerAlnumHyphen(s[i])

\* strings.Contains(s, "--")
ContainsHyphens(s) == \E i \in 1..(Len(s) - 1) : s[i] = "-" /\ s[i + 1] = "-"

\* ValidateSubdomain (reserved.go 134-162): every check is made on the lowercased
\* copy of the argument.
ValidateSubdomain(s) ==
    LET subdomainLower == ToLower(s)
    IN  IF Len(subdomainLower) < MinSubdomainLen THEN [ok |-> FALSE, msg |-> "too_short"]
        ELSE IF Len(subdomainLower) > MaxSubdomainLen THEN [ok |-> FALSE, msg |-> "too_long"]
        ELSE IF IsReservedSubdomain(subdomainLower) THEN [ok |-> FALSE, msg |-> "reserved"]
        ELSE IF ~MatchString(subdomainLower) THEN [ok |-> FALSE, msg |-> "format"]
        ELSE IF ContainsHyphens(subdomainLower) THEN [ok |-> FALSE, msg |-> "hyphens"]
        ELSE [ok |-> TRUE, msg |-> ""]

\* The arguments tried: every string over Chars up to MaxLen, and strings at and
\* above the longest length accepted.
Subdomains ==
    UNION {[1..n -> Chars] : n \in 0..MaxLen}
    \cup {[i \in 1..n |-> "a"] : n \in {MaxSubdomainLen, MaxSubdomainLen + 1}}

ValidateInit ==
    /\ InitProgram
    /\ fx \in {[op |-> "ValidateSubdomain", arg |-> s, out |-> <<>>, done |-> FALSE] :
                 s \in Subdomains}

\* CreateTunnel line 114: config.ValidateSubdomain(req.Subdomain).
Validate ==
    /\ fx.op = "ValidateSubdomain"
    /\ ~fx.done
    /\ fx' = [fx EXCEPT !.out = ValidateSubdomain(fx.arg), !.done = TRUE]
    /\ UNCHANGED program

ValidateNext == Validate

ValidateSpec == ValidateInit /\ [][ValidateNext]_vars


\* ============================================================== claims
Last(q) == q[Len(q)]

\* The http_request frame of request r went out on the session it was given.
Emitted(r) ==
    /\ rconn[r] # 0
    /\ \E i \in 1..Len(wire[rconn[r]]) :
         wire[rconn[r]][i].type = "http_request" /\ wire[rconn[r]][i].req = r

\* Request r holds a requestID on its session.
HasID(r) == rpc[r] \in {"sending", "wait"}

\* C1: for every http_request frame emitted, once HandleIncomingHTTPRequest has
\* returned its caller has been given exactly one of the http_response, a 504 or a
\* 502, and the session's pending table holds no entry for the frame's id.
C1_OneOutcomeNoEntry ==
    \A r \in Req :
        (rpc[r] = "done" /\ Emitted(r)) =>
            /\ Len(browser[r]) = 1
            /\ browser[r][1].status \in {200, 504, 502}
            /\ ~MapHas(pendingReqs[rconn[r]], rid[r])

\* C2: when a session is installed for a tunnelId whose key holds a session, the
\* old session's socket is closed by that step, and an exchange that was waiting
\* on a replaced session ends with 502.
C2_ReplaceTearsDownOld ==
    [][ /\ \A c \in Conn :
             (hpc[c] = "marked" /\ hpc'[c] = "installed" /\ MapHas(activeTunnels, ctid[c]))
                 => sock'[MapGet(activeTunnels, ctid[c])] = "closed"
        /\ \A r \in Req :
             ( /\ rpc[r] = "wait" /\ rpc'[r] = "done"
               /\ MapHas(activeTunnels, ctid[rconn[r]])
               /\ MapGet(activeTunnels, ctid[rconn[r]]) # rconn[r] )
                 => Last(browser'[r]).status = 502
      ]_vars

\* C3: the entry of a session leaves activeTunnels only when that session's own
\* handler removes it or a newer session is installed over it; the exit of another
\* connection's handler leaves it in place.
C3_RemoveOnlyOwnEntry ==
    [][ \A c \in Conn :
          (<<ctid[c], c>> \in activeTunnels /\ <<ctid[c], c>> \notin activeTunnels')
              => \/ hpc[c] = "returned" /\ hpc'[c] = "removed"
                 \/ \E d \in Conn \ {c} : hpc[d] = "marked" /\ hpc'[d] = "installed"
      ]_vars

\* C4: activeTunnels holds at most one session per tunnelId, under every
\* interleaving of the connection handlers.
C4_AtMostOneSessionPerTunnel ==
    \A p \in activeTunnels : \A q \in activeTunnels : p[1] = q[1] => p = q

\* C4's case: two handlers have installed a session for the same tunnelId and
\* neither has left yet.
C4_Witness ==
    \E c \in Conn : \E d \in Conn \ {c} :
        /\ ctid[c] = ctid[d]
        /\ hpc[c] \in {"installed", "connecting", "loop"}
        /\ hpc[d] \in {"installed", "connecting", "loop"}
        /\ activeTunnels # {}

\* C5: an exchange that is waiting, with nothing in its channel, on a session
\* whose handler has torn down (the socket is closed) ends with 502.
C5_TeardownGives502 ==
    [][ \A r \in Req :
          ( /\ rpc[r] = "wait" /\ chanBuf[r] = <<>>
            /\ sock[rconn[r]] = "closed"
            /\ rpc'[r] = "done" )
              => Last(browser'[r]).status = 502
      ]_vars

\* C6: an exchange waiting for an http_response that was never sent to its channel
\* can only end with 504 Gateway Timeout, and with that step the pending table has
\* no entry for its id.
C6_TimeoutGives504 ==
    [][ \A r \in Req :
          (rpc[r] = "wait" /\ chanBuf[r] = <<>> /\ rpc'[r] = "done")
              => /\ browser'[r] = <<Reply(504, "timeout", 0)>>
                 /\ ~MapHas(pendingReqs'[rconn[r]], rid[r])
      ]_vars

\* C6's case: a request timed out while at least one other entry was handled.
C6_Witness ==
    \E r \in Req :
        /\ rpc[r] = "done"
        /\ Emitted(r)
        /\ browser[r] = <<Reply(504, "timeout", 0)>>

\* C7: an http_response with id X read while a caller waits on X with its timer
\* not yet fired is put in that caller's channel; and the answer to the frame of a
\* caller whose timer fired first (it was answered 504) is dropped, it reaches no
\* channel.
C7_ResponseReachesItsWaiter ==
    [][ \A c \in Conn : \A k \in 1..Len(wire[c]) :
          ReadHTTPResponse(c, k) =>
              /\ \A r \in Req :
                   ( /\ rconn[r] = c /\ rpc[r] = "wait"
                     /\ rid[r] = wire[c][k].id /\ chanBuf[r] = <<>> )
                       => chanBuf'[r] # <<>>
              /\ ( /\ rpc[wire[c][k].req] = "done"
                   /\ Last(browser[wire[c][k].req]).status = 504 )
                     => chanBuf' = chanBuf
      ]_vars

\* C8: two exchanges started on the same session never hold the same
\* correlation id.
C8_DistinctIDs ==
    \A r \in Req : \A q \in Req \ {r} :
        (HasID(r) /\ HasID(q) /\ rconn[r] = rconn[q]) => rid[r] # rid[q]

\* C9: at most one goroutine is inside a write to an agent websocket.
C9_SingleWriter ==
    \A c \in Conn : Cardinality(Writers(c)) <= 1

\* C10: the first frame written on a session is connected.
C10_ConnectedFirst ==
    \A c \in Conn : wire[c] # <<>> => wire[c][1].type = "connected"

\* ------------------------------------------------------------ heartbeat
\* time.Since(lastHeartbeat) at the coming tick of connection c is above this many
\* seconds, and at most one TickPeriod more.
SilentFor(c) == silence[c] * TickPeriod

\* No other connection has got past its checks.
Alone(c) == \A d \in Conn \ {c} : hpc[d] \in {"idle", "rejected"}

HasRead(c) ==
    \E r \in Req : /\ rconn[r] = c /\ rpc[r] = "done"
                    /\ Last(browser[r]).status = 200

\* C12: with the agent silently gone after some inbound activity (no error on the
\* socket, the reader still reading), the session is torn down at most 45 s after
\* the last inbound activity: the tick that ends the loop finds
\* time.Since(lastHeartbeat) no more than 45 s.
C12_SilentDropDeadBy45 ==
    [][ \A c \in Conn :
          ( /\ hpc[c] = "loop" /\ sock[c] = "open" /\ rdr[c] = "reading"
            /\ HasRead(c)
            /\ hpc'[c] = "returned" )
              => SilentFor(c) < HeartbeatTimeout ]_vars

\* C13: after a session was torn down by heartbeat death (and no other agent has
\* connected) the row has is_active = false and a browser request for the tunnel's
\* subdomain is answered 503 with the connection-lost page.
C13_AfterHeartbeatDeath503 ==
    [][ \A r \in Req : \A c \in Conn :
          ( /\ rpc[r] = "idle" /\ rpc'[r] # "idle"
            /\ rhost'[r] = ctid[c]
            /\ hpc[c] = "exited" /\ cause[c] = "heartbeat" /\ Alone(c) )
              => /\ ~isActive[ctid[c]]
                 /\ browser'[r] = <<Reply(503, "connection_lost", 0)>> ]_vars

\* C14: when the connection handler of a session has exited, whatever the way out,
\* and no other agent is connected for the tunnel, the tunnel has no entry in D and
\* its row has is_active = false with last_seen written by the exit.
C14_ExitLeavesNothing ==
    \A c \in Conn :
        (hpc[c] \in {"exited", "panicked"} /\ Alone(c))
            => /\ ~MapHas(activeTunnels, ctid[c])
               /\ ~isActive[ctid[c]]
               /\ lastSeen[ctid[c]] = "disconnect"

\* ----------------------------------------------------------- StopTunnel
\* C15: a stop that found a live session and answered success has sent terminate
\* and closed the session: the agent socket is closed, the tunnel has no session in
\* D, no exchange is left pending on it, and the row has is_active = false.
C15_StopClosesSession ==
    [][ (spc = "terminating" /\ spc' = "sent")
          => /\ Last(wire'[sconn]).type = "terminate"
             /\ sock'[sconn] = "closed"
             /\ ~MapHas(activeTunnels', ctid[sconn])
             /\ pendingReqs'[sconn] = {}
             /\ ~isActive'[ctid[sconn]] ]_vars

\* C16: a stop on a tunnel whose row is active and which has no session in D sets
\* is_active = false and answers success, and no frame is written to any agent.
C16_StopReconciles ==
    [][ \A t \in TunnelIDs :
          (spc = "idle" /\ spc' # "idle" /\ isActive[t] /\ ~MapHas(activeTunnels, t))
              => /\ ~isActive'[t]
                 /\ spc' = "reconciled"
                 /\ wire' = wire ]_vars

\* The stop reconciled a row that a connect had marked active: the connection is
\* past its removal from D by a way out that leaves the row alone, and only the
\* stop can have written is_active = false since.
C16_Witness ==
    /\ spc = "reconciled"
    /\ \E c \in Conn :
         /\ hpc[c] = "removed" /\ cause[c] \in {"read_done", "ping_write"}
         /\ ~isActive[ctid[c]]
         /\ lastSeen[ctid[c]] = "reconcile"

\* ------------------------------------------------------ HandleSubdomain
\* C17: a browser request to the subdomain of a tunnel whose row has
\* is_active = false is answered 503 with the tunnel-offline page.
C17_InactiveGetsOffline ==
    [][ \A r \in Req :
          ( /\ rpc[r] = "idle" /\ rpc'[r] # "idle"
            /\ rhost'[r] \in TunnelIDs /\ ~isActive[rhost'[r]] )
              => browser'[r] = <<Reply(503, "offline", 0)>> ]_vars

\* C18: a browser request to a subdomain no row has is answered 404 with the
\* not-found page, and no frame is written to any agent.
C18_UnknownGetsNotFound ==
    [][ \A r \in Req :
          (rpc[r] = "idle" /\ rpc'[r] # "idle" /\ rhost'[r] \notin TunnelIDs)
              => /\ browser'[r] = <<Reply(404, "not_found", 0)>>
                 /\ rpc'[r] = "done"
                 /\ wire' = wire ]_vars

C18_Witness ==
    \E r \in Req : /\ rpc[r] = "done" /\ rhost[r] = "gone"
                   /\ browser[r] = <<Reply(404, "not_found", 0)>>
                   /\ \E c \in Conn : hpc[c] = "loop"

\* C19: a browser request to the subdomain of a tunnel whose row has
\* is_active = true and which has no session in D is answered 503 with the
\* connection-lost page.
C19_NoSessionGetsConnectionLost ==
    [][ \A r \in Req :
          ( /\ rpc[r] = "idle" /\ rpc'[r] # "idle"
            /\ rhost'[r] \in TunnelIDs /\ isActive[rhost'[r]]
            /\ ~MapHas(activeTunnels, rhost'[r]) )
              => /\ browser'[r] = <<Reply(503, "connection_lost", 0)>>
                 /\ rpc'[r] = "done" ]_vars

C19_Witness ==
    \E r \in Req : /\ rpc[r] = "done" /\ rhost[r] \in TunnelIDs
                   /\ browser[r] = <<Reply(503, "connection_lost", 0)>>

\* -------------------------------------------------------- ConnectTunnel
\* The user is authenticated, the tunnel is found, it belongs to the user and its
\* auth token is the one presented.
Authorized(cr) ==
    /\ cr.user # ""
    /\ cr.tid \in TunnelIDs
    /\ Owner[cr.tid] = cr.user
    /\ AuthToken[cr.tid] = cr.auth

\* C20: a connect request marks the row active and installs its session only when
\* every check passed, and a request rejected with 401, 404 or 403 leaves D and
\* the row as they were.
C20_ConnectOnlyWhenAuthorized ==
    [][ \A c \in Conn :
          /\ (hpc[c] = "idle" /\ hpc'[c] = "marked") => Authorized(creds'[c])
          /\ (hpc[c] = "marked" /\ hpc'[c] = "installed") => Authorized(creds[c])
          /\ (isActive' # isActive /\ hpc'[c] # hpc[c] /\ \E t \in TunnelIDs : isActive'[t])
                 => Authorized(creds'[c])
          /\ ( /\ hpc[c] = "idle" /\ hpc'[c] = "rejected"
               /\ ConnectCheck(creds'[c]) \in {401, 404, 403} )
                 => /\ activeTunnels' = activeTunnels
                    /\ isActive' = isActive
                    /\ lastSeen' = lastSeen ]_vars

\* A connect request was turned away while a session of the tunnel is live.
C20_Witness ==
    \E c \in Conn : \E d \in Conn \ {c} :
        /\ hpc[c] = "rejected" /\ ConnectCheck(creds[c]) \in {401, 404, 403}
        /\ hpc[d] = "loop" /\ MapHas(activeTunnels, ctid[d]) /\ isActive[ctid[d]]

\* C21: when a registry operation fails during connect (the update that marks the
\* row active, or the lookup of the local port), the connect fails: no session of
\* the connection is in D and the row ends with is_active = false.
C21_RegistryFailureLeavesInactive ==
    \A c \in Conn :
        (hpc[c] = "db_failed" /\ Alone(c)) =>
            /\ \A p \in activeTunnels : p[2] # c
            /\ ~isActive[ctid[c]]

\* C22: a websocket_data frame the agent sends for a bridged exchange whose browser
\* socket is open is delivered to that browser socket, after what was delivered
\* before it, as a frame of the corresponding type.
C22_AgentDataReachesBrowser ==
    [][ \A c \in Conn : \A k \in 1..Len(wire[c]) :
          ReadWebSocketData(c, k)
              => browser'[wire[c][k].req] =
                     Append(browser[wire[c][k].req],
                            Reply(1, "websocket_data", wire[c][k].req)) ]_vars

\* The websocket_upgrade frame of request r went out on the session it was given.
UpgradeEmitted(r) ==
    /\ rconn[r] # 0
    /\ \E i \in 1..Len(wire[rconn[r]]) :
         wire[rconn[r]][i].type = "websocket_upgrade" /\ wire[rconn[r]][i].req = r

\* C23: once HandleWebSocketUpgrade has returned for an upgrade request that was
\* sent, it ended in exactly one of bridging (the response was 101), the response
\* forwarded (it was not 101) or 504 (none came in 10 s), and the session's pending
\* table holds no entry for the id.
C23_UpgradeOneOutcomeNoEntry ==
    \A r \in WsReq :
        (rpc[r] = "done" /\ UpgradeEmitted(r)) =>
            /\ browser[r] # <<>>
            /\ browser[r][1].body \in {"switching_protocols", "response", "ws_timeout"}
            /\ browser[r][1].body = "switching_protocols" <=> browser[r][1].status = 101
            /\ browser[r][1].body # "switching_protocols" => Len(browser[r]) = 1
            /\ ~MapHas(pendingReqs[rconn[r]], rid[r])

\* A frame other than the upgrade request and the data forwarded told the agent
\* about the exchange of request r.
AgentTold(r) ==
    \E i \in 1..Len(wire[rconn[r]]) :
        /\ wire[rconn[r]][i].req = r
        /\ wire[rconn[r]][i].type \notin {"websocket_upgrade", "websocket_data"}

\* C24: when bridging has ended, the closure was propagated: after the browser
\* closed the agent was told, and otherwise the browser socket was closed with the
\* normal-closure code.
C24_ClosurePropagated ==
    \A r \in WsReq :
        (rpc[r] = "done" /\ browser[r] # <<>> /\ browser[r][1].status = 101) =>
            IF Last(browser[r]).body = "close_echo"
            THEN AgentTold(r)
            ELSE Last(browser[r]).status = 1000

\* C25: once DeleteTunnel has deleted the row of a tunnel, no session of the tunnel
\* is in D.
C25_DeleteRemovesSession ==
    \A t \in TunnelIDs \ rows : ~MapHas(activeTunnels, t)

C27_NoHopByHopRelayed ==
    fx.done =>
        LET HopHeaders == {"Connection", "Keep-Alive", "Proxy-Authenticate",
                           "Proxy-Authorization", "Te", "Trailer", "Transfer-Encoding",
                           "Upgrade"}
        IN  /\ fx.op = "RequestHeaders" => DOMAIN fx.out \cap HopHeaders = {}
            /\ fx.op = "writeHTTPResponse" => DOMAIN fx.out.headers \cap HopHeaders = {}

\* C28: every string ValidateSubdomain accepts matches
\* ^[a-z0-9]([a-z0-9-]*[a-z0-9])?$, has a length from 3 to 63, contains no "--"
\* and is not reserved; and an accepted lowercase string is accepted when it is
\* validated again.
C28_AcceptedIsWellFormed ==
    (fx.op = "ValidateSubdomain" /\ fx.done /\ fx.out.ok) =>
        /\ MatchString(fx.arg)
        /\ Len(fx.arg) >= MinSubdomainLen /\ Len(fx.arg) <= MaxSubdomainLen
        /\ ~ContainsHyphens(fx.arg)
        /\ ~IsReservedSubdomain(fx.arg)
        /\ (ToLower(fx.arg) = fx.arg => ValidateSubdomain(fx.arg) = fx.out)

\* C29: an inbound frame of an unknown type, or one that is not a TunnelMessage, is
\* dropped and is not fatal: the session stays in D, its socket stays open, the
\* pending table and the channels are as they were, and the reader goes on reading.
C29_BadFrameDropped ==
    [][ \A c \in Conn :
          ReadOther(c) =>
              /\ activeTunnels' = activeTunnels
              /\ sock' = sock
              /\ pendingReqs' = pendingReqs
              /\ chanBuf' = chanBuf
              /\ hpc' = hpc
              /\ rdr'[c] = "reading" ]_vars

\* A session in its loop, with nothing but connected written to it, has just read
\* a frame: no request frame is there for the agent to answer.
C29_Witness ==
    \E c \in Conn :
        /\ hpc[c] = "loop" /\ rdr[c] = "reading" /\ sock[c] = "open"
        /\ silence[c] = 0
        /\ Len(wire[c]) = 1
        /\ MapHas(activeTunnels, ctid[c])

\* The teardown of session c has begun: handleTunnelConnection has returned.
TornDown(c) == hpc[c] \in {"returned", "removed", "exited"}

\* C30: a failed write of a request frame to the agent socket of a session in its
\* loop triggers the teardown of the session, and an exchange waiting on a session
\* on which a write has failed ends with 502.
C30_FailedWriteTearsDown ==
    [][ \A r \in Req :
          /\ ( /\ rpc[r] = "sending" /\ rpc'[r] = "done"
               /\ hpc[rconn[r]] = "loop"
               /\ Last(browser'[r]) = Reply(502, "send_failed", 0) )
                 => TornDown(rconn[r])'
          /\ ( /\ rpc[r] = "wait" /\ chanBuf[r] = <<>> /\ rpc'[r] = "done"
               /\ \E q \in Req \ {r} :
                    /\ rconn[q] = rconn[r] /\ rpc[q] = "done"
                    /\ browser[q] = <<Reply(502, "send_failed", 0)>> )
                 => Last(browser'[r]).status = 502 ]_vars

\* C31: marking a tunnel active and then marking it inactive leaves its row as it
\* was before except for last_seen: once the only handler there has been has
\* exited, is_active is false and connected_ip is what it was before that handler
\* marked the row (NULL, no handler having run before it).
C31_MarkInactiveRestoresRow ==
    \A c \in Conn :
        (Alone(c) /\ hpc[c] = "exited" /\ ctid[c] \in rows)
            => /\ isActive[ctid[c]] = FALSE
               /\ connectedIp[ctid[c]] = 0

\* C32: the pending entry of an exchange is inserted before its frame is written,
\* so from the write on, until the response, the timeout or the teardown takes it
\* away, the table of the session holds the entry: an exchange whose http_request
\* frame is on the wire and that still waits with nothing delivered to it has its
\* entry, under its id, leading to its own channel.
C32_EntryBeforeFrame ==
    \A r \in Req :
        (Emitted(r) /\ rpc[r] = "wait" /\ chanBuf[r] = <<>>)
            => /\ MapHas(pendingReqs[rconn[r]], rid[r])
               /\ MapGet(pendingReqs[rconn[r]], rid[r]) = r

\* The goroutines whose next step writes tp.pendingReqs of session c: a request
\* about to insert its entry (part_001 359, 403), one in its select, which deletes
\* the entry on either branch (373, 375, 418, 421), and one whose failed send
\* deletes it (364, 407).  The TunnelProtocol struct (311-317) holds no lock and none is taken.
TableWriters(c) ==
    {<<"req", r>> : r \in {x \in AllReq :
                             /\ rconn[x] = c
                             /\ \/ rpc[x] \in {"makeid", "wait", "ws_wait"}
                                \/ rpc[x] \in {"sending", "ws_sending"} /\ sock[c] # "open"}}

\* The reader of session c when a response can reach it: its dispatch looks
\* message.ID up in tp.pendingReqs (part_001 453, 466).
TableReaders(c) ==
    IF /\ rdr[c] = "reading" /\ sock[c] = "open"
       /\ \E k \in 1..Len(wire[c]) : wire[c][k].type \in {"http_request", "websocket_upgrade"}
    THEN {<<"reader", c>>}
    ELSE {}

\* Two goroutines are at an access of the table of c, one of them a write, with
\* nothing ordering the two.
Racing(c) == \E g \in TableWriters(c) : (TableWriters(c) \cup TableReaders(c)) \ {g} # {}

\* C33: the pending table of a session is never accessed by two goroutines at
\* once with one of them writing.
C33_TableSafe == \A c \in Conn : ~Racing(c)

\* The replies of request r that forward a response of the agent.
Observed(r) ==
    {i \in 1..Len(browser[r]) : browser[r][i].body \in {"response", "switching_protocols"}}

\* The reader of c is in its loop on an open socket.
Reading(c) == rdr[c] = "reading" /\ sock[c] = "open"

\* C34: dispatching an http_response or a websocket_upgrade_response never blocks
\* the reader: whenever the reader reads and the agent answers a frame, the
\* dispatch can be taken, whatever the table and the channels hold.  A response
\* with no entry, or whose waiter's slot is full, is dropped: channels, table,
\* requests and replies stay as they are and the reader goes on reading.  No
\* channel ever holds more than one response, and a waiter observes at most one.
C34_DispatchNeverBlocks ==
    /\ [](\A r \in AllReq : Len(chanBuf[r]) <= 1 /\ Cardinality(Observed(r)) <= 1)
    /\ [](\A c \in Conn : \A k \in 1..Len(wire[c]) :
            /\ (Reading(c) /\ wire[c][k].type = "http_request")
                 => ENABLED ReadHTTPResponse(c, k)
            /\ (Reading(c) /\ wire[c][k].type = "websocket_upgrade")
                 => \A st \in UpgradeStatuses : ENABLED ReadUpgradeResponse(c, k, st))
    /\ [][ \A c \in Conn : \A k \in 1..Len(wire[c]) :
             ((ReadHTTPResponse(c, k) \/ \E st \in UpgradeStatuses : ReadUpgradeResponse(c, k, st))
              /\ ( \/ ~MapHas(pendingReqs[c], wire[c][k].id)
                   \/ chanBuf[MapGet(pendingReqs[c], wire[c][k].id)] # <<>> ))
                 => /\ chanBuf' = chanBuf
                    /\ pendingReqs' = pendingReqs
                    /\ rpc' = rpc
                    /\ browser' = browser
                    /\ rdr'[c] = "reading" ]_vars

\* The reader of a session reads on while a waiter of the session has not yet
\* taken the response that fills its channel: another response for it is dropped.
C34_Witness ==
    \E r \in AllReq :
        /\ rpc[r] \in {"wait", "ws_wait"}
        /\ Len(chanBuf[r]) = 1
        /\ Reading(rconn[r])
        /\ MapHas(pendingReqs[rconn[r]], rid[r])

\* C35: Close removes every entry of the session's table and unblocks every
\* waiter, and a waiter it unblocked (its channel closed with nothing in it)
\* returns an error of its own to its caller: it neither takes what it received
\* for a response to write nor panics writing it.
C35_CloseUnblocksWithError ==
    [][ /\ \A c \in Conn :
             (sock[c] = "open" /\ sock'[c] = "closed" /\ hpc'[c] = hpc[c]
              /\ chanClosed' # chanClosed)
                 => /\ pendingReqs'[c] = {}
                    /\ \A p \in pendingReqs[c] : p[2] \in chanClosed'
        /\ \A r \in Req :
             (r \in chanClosed /\ chanBuf[r] = <<>> /\ rpc[r] = "wait" /\ rpc'[r] = "done")
                 => /\ Last(browser'[r]).status >= 500
                    /\ Last(browser'[r]).body \notin {"response", "panic"} ]_vars

\* C36: a timeout ends one exchange only.  In the step in which an exchange
\* answers 504, the session stays in D, its socket stays as it is, and every other
\* exchange in flight on the session keeps its entry in the pending table.
C36_TimeoutIsLocal ==
    [][ \A r \in Req :
          ( /\ rpc[r] = "wait" /\ rpc'[r] = "done"
            /\ Last(browser'[r]) = Reply(504, "timeout", 0) )
              => /\ activeTunnels' = activeTunnels
                 /\ sock' = sock
                 /\ hpc' = hpc
                 /\ \A q \in Req \ {r} :
                      (HasID(q) /\ rconn[q] = rconn[r]
                       /\ MapHas(pendingReqs[rconn[q]], rid[q]))
                          => MapHas(pendingReqs'[rconn[q]], rid[q]) ]_vars

\* C37: a session that receives an inbound frame, a control ping or a control pong
\* at least once every 45 s is never torn down by the heartbeat timeout check:
\* every inbound frame refreshes lastHeartbeat, and the check ends the loop only
\* when more than 45 s have passed since the last of them.
C37_HeardSessionSurvives ==
    /\ [][ \A c \in Conn :
             (ReadOther(c) \/ \E k \in 1..Len(wire[c]) : ReadHTTPResponse(c, k))
                 => silence'[c] = 0 ]_vars
    /\ [][ \A c \in Conn :
             (hpc[c] = "loop" /\ hpc'[c] # "loop" /\ cause'[c] = "heartbeat")
                 => SilentFor(c) >= HeartbeatTimeout ]_vars

\* A session that has relayed a response and has heard nothing for two ticks
\* since, between 30 and 45 s, is still in its loop and in D.
C37_Witness ==
    \E c \in Conn :
        /\ hpc[c] = "loop" /\ HasRead(c) /\ Reading(c)
        /\ silence[c] = 2
        /\ MapHas(activeTunnels, ctid[c]) /\ MapGet(activeTunnels, ctid[c]) = c
        /\ isActive[ctid[c]]

\* C38: for every ping message read on an open socket exactly one pong with the
\* same id is written, and a frame that is not a ping (a pong among them) writes
\* nothing: the reader leaves handlePing with the wire longer by that one pong, and
\* the other reads of the reader leave the wire as it is.
C38_OnePongPerPing ==
    [][ \A c \in Conn :
          /\ (rdr[c] = "ponging" /\ rdr'[c] # "ponging" /\ sock[c] = "open")
                 => wire'[c] = Append(wire[c], Frame("pong", rping[c], 0))
          /\ ReadOther(c) => wire' = wire ]_vars

\* The ConnectTunnel handler of connection c is running: it has passed its checks
\* and has not returned, failed or panicked.
HandlerRunning(c) == hpc[c] \in {"marked", "installed", "connecting", "loop", "returned", "removed"}

\* C39: an entry of D never outlives the handlers of its tunnel: whenever D holds
\* a session for a tunnel, a ConnectTunnel handler for that tunnel is running.
C39_EntryHasHandler ==
    \A t \in TunnelIDs :
        MapHas(activeTunnels, t) => \E c \in Conn : ctid[c] = t /\ HandlerRunning(c)

\* C40: teardown always completes.  Once the reader of a session has terminated,
\* its handler eventually returns with the entry of D removed and the row marked
\* inactive; once the handler has left its loop, for whatever reason, the socket
\* is eventually closed and the reader has terminated.
C40_TeardownCompletes ==
    \A c \in {1} :
        /\ (rdr[c] = "exited") ~>
              ( /\ hpc[c] = "exited"
                /\ ~MapHas(activeTunnels, ctid[c])
                /\ ~isActive[ctid[c]] )
        /\ (hpc[c] \in {"returned", "panicked"}) ~>
              (sock[c] = "closed" /\ rdr[c] # "reading")

\* A session torn down by the heartbeat check, from the handler's side, is at its
\* end: the handler has exited, the socket is closed and the reader has ended.
C40_Witness ==
    \E c \in Conn :
        /\ hpc[c] = "exited" /\ cause[c] = "heartbeat"
        /\ rdr[c] = "exited" /\ sock[c] = "closed"
        /\ ~MapHas(activeTunnels, ctid[c])

====
